---- MODULE Spec2Model ----
(***************************************************************************)
(* The blocking bridge of ldap3 (src/src/sync.rs): LdapConn, which drives  *)
(* the asynchronous Ldap handle on a Tokio runtime held in an Arc, and      *)
(* EntryStream, which shares that Arc with the LdapConn that created it.    *)
(*                                                                          *)
(* Every blocking method is Arc::get_mut(&mut self.rt).expect(..) followed  *)
(* by rt.block_on(future).  A call is modelled in three steps so that the   *)
(* thread holding the LdapConn and a thread holding an EntryStream can      *)
(* interleave: the call (get_mut, start of the future), the completion of   *)
(* the future inside the session, and the return of block_on.               *)
(*                                                                          *)
(* The asynchronous side (crate::ldap::Ldap, crate::search::SearchStream)   *)
(* is not part of sync.rs; its behaviour is taken from the specification:   *)
(* request ids grow by one per operation, a closed session rejects every    *)
(* operation with SessionClosed without sending anything, and a cursor      *)
(* yields its entries in order and then None.                               *)
(***************************************************************************)
EXTENDS Integers, Sequences, FiniteSets, TLC

\* Bounds of the model.
MaxStreams == 2
MaxEntries == 2
MaxCalls == 3

\* The holders of the runtime: the LdapConn and the EntryStreams it creates.
CONN == 0
SIds == 1..MaxStreams
Holders == {CONN} \cup SIds

BindOps == {"simple_bind", "sasl_external_bind", "sasl_spnego_bind"}
ConnOps == BindOps \cup {"search", "streaming_search", "add", "compare",
                         "delete", "modify", "modifydn", "unbind",
                         "extended", "abandon"}
BlockingOps == ConnOps \cup {"next"}

VARIABLES
    conn,       \* "none", "live", "dropped", "failed": the LdapConn
    rc,         \* strong count of the Arc<Runtime>
    sst,        \* per EntryStream: "unused", "live", "finished", "dropped"
    cur,        \* per EntryStream: the SearchStream cursor it wraps
    call,       \* per holder: the blocking call it is inside, if any
    driving,    \* the holders that are inside rt.block_on
    ses,        \* the asynchronous Ldap session
    ret,        \* per holder: what its last method call returned
    nIssued,    \* number of blocking calls made so far
    scenA       \* steps of connect, simple_bind, search, unbind done so far

vars == <<conn, rc, sst, cur, call, driving, ses, ret, nIssued, scenA>>

Idle == [op |-> "idle", done |-> FALSE, out |-> "-", val |-> 0, k |-> 0,
         id |-> 0, connLive |-> FALSE, others |-> 0, closed |-> FALSE]
NoRet == [op |-> "none", out |-> "-", val |-> 0, k |-> 0, connLive |-> FALSE,
          acq |-> FALSE, sawEnd |-> FALSE, others |-> 0, closed |-> FALSE]
NoCursor == [n |-> 0, pos |-> 0, done |-> FALSE, abandoned |-> FALSE,
             id |-> 0, calls |-> 0, exch |-> 0, endAt |-> 0, open |-> FALSE,
             rt |-> 0]
NoSession == [lastId |-> 0, closed |-> FALSE, closedAt |-> 0,
              bindFailed |-> FALSE, inflight |-> 0, lastOut |-> "-"]

\* The live EntryStreams, and the live holders other than h.
LiveStreams == {s \in SIds : sst[s] = "live"}
Others(h) == Cardinality(LiveStreams \ {h})
                + (IF h # CONN /\ conn = "live" THEN 1 ELSE 0)

\* Arc::get_mut(&mut self.rt): Some only when this is the only holder.
ArcGetMutAlways(count) == count >= 1
ArcGetMutAtMostTwo(count) == count <= 2
ArcGetMut(count) == count = 1

\* Arc::clone, and the drop of an Arc field when its owner is dropped or consumed.
ArcCloneForgotten(count) == count
ArcClone(count) == count + 1
ArcDropLeak(count) == count
ArcDrop(count) == count - 1

\* The runtime built by with_settings, and the runtime an EntryStream gets:
\* the clone of the Arc points at the runtime of the LdapConn.
RT == 1
StreamRuntimeNew(r) == r + 1
StreamRuntime(r) == r

\* The runtime is destroyed when the last Arc pointing at it is dropped.
RuntimeAlive(count) == count > 0

\* with_settings returns Ok(LdapConn) only past the two `?`: the build of the
\* runtime and the connection establishment.
ConnAfterIgnoringError(out) == "live"
ConnAfter(out) == IF out = "Ok" THEN "live" ELSE "failed"

\* streaming_search leaves with `?` when the start of the search failed, and
\* builds the EntryStream otherwise.
StreamCreatedAlways(op, out) == op = "streaming_search"
StreamCreated(op, out) == op = "streaming_search" /\ out = "Ok"

\* result() returns the value of finish(); it does not go through get_mut.
ResultViaGetMut(count, v) == IF count = 1 THEN v ELSE "Panic"
ResultOutcome(count, v) == v

\* rt.block_on(future) returns when the future has completed.
BlockOnDetached(done) == TRUE
BlockOn(done) == done

\* The value of rt.block_on(..) is the method's return value, unchanged.
MethodResultSwallowed(out) == IF out = "Ok" THEN out ELSE "Err"
MethodResult(out) == out

\* last_id() reads a field; it touches neither the Arc nor the runtime.
LastIdViaGetMut(count) == IF ArcGetMut(count) THEN "Ok" ELSE "Panic"
LastIdOutcome(count) == "Ok"

\* The outcomes the asynchronous session can report for an operation.
SessionOutcomes == {"Ok", "Err"}

\* The session assigns request ids in increasing order.
NextId(s) == s.lastId + 1

\* Starting an operation on the session: an open session assigns the next
\* request id and sends the request; a closed one does neither.
SessionStart(s) ==
    IF s.closed THEN s
    ELSE [s EXCEPT !.inflight = @ + 1, !.lastId = NextId(s)]

\* A blocking method awaits one future of the session: ldap.<op>(..).await.
ForwardWithRetry(s) == SessionStart(SessionStart(s))
Forward(s) == SessionStart(s)

\* The outcomes of with_settings: those of the connection establishment,
\* and the failure to build the runtime.
ConnectOutcomes == SessionOutcomes \cup {"RuntimeErr"}

\* The cursor's next-entry step: an error once the search has been
\* abandoned; None again, with nothing read, once None has been given; the
\* next entry while there is one; and otherwise None, which ends the
\* exchange.  k is the number of the next() call being served.
CursorStep(c, k) ==
    IF c.abandoned THEN [c |-> c, out |-> "Abandoned", val |-> 0]
    ELSE IF c.done THEN [c |-> c, out |-> "Ok", val |-> 0]
    ELSE IF c.pos < c.n
    THEN [c |-> [c EXCEPT !.pos = @ + 1, !.exch = @ + 1],
          out |-> "Ok", val |-> c.pos + 1]
    ELSE [c |-> [c EXCEPT !.done = TRUE, !.exch = @ + 1, !.endAt = k,
                          !.open = FALSE],
          out |-> "Ok", val |-> 0]

\* Dropping or finishing a SearchStream ends its exchange with the server.
CursorClose(c) == [c EXCEPT !.open = FALSE]

\* Progress through connect, simple_bind, search, unbind, each successful,
\* with nothing in between; 4 once the sequence has been left.
ScenStep(sc, op, out) ==
    IF sc = 0 /\ op = "simple_bind" /\ out = "Ok" THEN 1
    ELSE IF sc = 1 /\ op = "search" /\ out = "Ok" THEN 2
    ELSE IF sc = 2 /\ op = "unbind" /\ out = "Ok" THEN 3
    ELSE 4

Init ==
    /\ conn = "none"
    /\ rc = 0
    /\ sst = [s \in SIds |-> "unused"]
    /\ cur = [s \in SIds |-> NoCursor]
    /\ call = [h \in Holders |-> Idle]
    /\ driving = {}
    /\ ses = NoSession
    /\ ret = [h \in Holders |-> NoRet]
    /\ nIssued = 0
    /\ scenA = 0

\* LdapConn::with_settings: build the runtime, drive the connection
\* establishment on it, and wrap the runtime in a new Arc.
WithSettings ==
    /\ conn = "none"
    /\ \E out \in ConnectOutcomes :
        /\ conn' = ConnAfter(out)
        /\ rc' = IF ConnAfter(out) = "live" THEN 1 ELSE 0
        /\ ret' = [ret EXCEPT ![CONN] =
                     [NoRet EXCEPT !.op = "with_settings",
                                   !.out = MethodResult(out), !.acq = TRUE]]
    /\ UNCHANGED <<sst, cur, call, driving, ses, nIssued, scenA>>

\* The common body of the blocking LdapConn methods:
\*   let rt = Arc::get_mut(&mut self.rt).expect("runtime ref");
\*   rt.block_on(async move { ldap.<op>(..).await })
\* When get_mut gives None the expect panics and nothing else happens;
\* otherwise the future is started on the runtime.
ConnCall(op, arg) ==
    /\ conn = "live"
    /\ call[CONN].op = "idle"
    /\ nIssued < MaxCalls
    /\ nIssued' = nIssued + 1
    /\ IF ArcGetMut(rc)
       THEN /\ driving' = driving \cup {CONN}
            /\ call' = [call EXCEPT ![CONN] =
                          [Idle EXCEPT !.op = op, !.val = arg,
                                       !.id = IF ses.closed THEN 0
                                              ELSE NextId(ses),
                                       !.connLive = TRUE,
                                       !.others = Others(CONN),
                                       !.closed = ses.closed]]
            /\ ses' = Forward(ses)
            /\ UNCHANGED <<ret, scenA>>
       ELSE /\ ret' = [ret EXCEPT ![CONN] =
                         [NoRet EXCEPT !.op = op, !.out = "Panic", !.val = arg,
                                       !.connLive = TRUE,
                                       !.others = Others(CONN),
                                       !.closed = ses.closed]]
            /\ scenA' = 4
            /\ UNCHANGED <<driving, call, ses>>
    /\ UNCHANGED <<conn, rc, sst, cur>>

SimpleBind == ConnCall("simple_bind", 0)
SaslExternalBind == ConnCall("sasl_external_bind", 0)
SaslSpnegoBind == ConnCall("sasl_spnego_bind", 0)
Search == ConnCall("search", 0)
StreamingSearch ==
    /\ \E s \in SIds : sst[s] = "unused"
    /\ ConnCall("streaming_search", 0)
Add == ConnCall("add", 0)
Compare == ConnCall("compare", 0)
Delete == ConnCall("delete", 0)
Modify == ConnCall("modify", 0)
ModifyDn == ConnCall("modifydn", 0)
Unbind == ConnCall("unbind", 0)
Extended == ConnCall("extended", 0)
Abandon == \E msgid \in 0..ses.lastId : ConnCall("abandon", msgid)

\* The asynchronous session finishes the operation the LdapConn is waiting
\* for.  A closed session has rejected it.  Otherwise a successful unbind
\* closes the session, a bind sets or clears the failed-bind state, a
\* successful abandon marks the cursor of the search with that id, and a
\* successful streaming search has a cursor of n entries.
ConnOpCompletes ==
    /\ call[CONN].op \in ConnOps
    /\ ~call[CONN].done
    /\ LET op == call[CONN].op IN
       \E out \in SessionOutcomes \cup {"SessionClosed"}, n \in 0..MaxEntries :
        /\ (out = "SessionClosed") <=> call[CONN].closed
        /\ n > 0 => (op = "streaming_search" /\ out = "Ok")
        /\ call' = [call EXCEPT ![CONN].done = TRUE, ![CONN].out = out,
                                ![CONN].k = n]
        /\ ses' = IF call[CONN].closed
                  THEN [ses EXCEPT !.lastOut = out]
                  ELSE [ses EXCEPT
                          !.inflight = @ - 1,
                          !.lastOut = out,
                          !.closed = (op = "unbind" /\ out = "Ok"),
                          !.closedAt = IF op = "unbind" /\ out = "Ok"
                                       THEN ses.lastId ELSE @,
                          !.bindFailed = IF op \in BindOps
                                         THEN out = "Err" ELSE @]
        /\ cur' = IF op = "abandon" /\ out = "Ok"
                  THEN [s \in SIds |->
                          IF sst[s] = "live" /\ cur[s].id = call[CONN].val
                          THEN [cur[s] EXCEPT !.abandoned = TRUE]
                          ELSE cur[s]]
                  ELSE cur
    /\ UNCHANGED <<conn, rc, sst, driving, ret, nIssued, scenA>>

\* block_on returns and the method returns its result.  streaming_search
\* propagates an error with `?`; on success it wraps the SearchStream and a
\* clone of the Arc in a new EntryStream.
ConnReturn ==
    /\ call[CONN].op \in ConnOps
    /\ BlockOn(call[CONN].done)
    /\ driving' = driving \ {CONN}
    /\ call' = [call EXCEPT ![CONN] = Idle]
    /\ ret' = [ret EXCEPT ![CONN] =
                 [NoRet EXCEPT !.op = call[CONN].op,
                               !.out = MethodResult(call[CONN].out),
                               !.val = call[CONN].val, !.connLive = TRUE,
                               !.acq = TRUE, !.others = call[CONN].others,
                               !.closed = call[CONN].closed]]
    /\ scenA' = ScenStep(scenA, call[CONN].op, MethodResult(call[CONN].out))
    /\ IF StreamCreated(call[CONN].op, call[CONN].out)
       THEN LET s == CHOOSE x \in SIds :
                        /\ sst[x] = "unused"
                        /\ \A y \in SIds : sst[y] = "unused" => x <= y
            IN /\ sst' = [sst EXCEPT ![s] = "live"]
               /\ cur' = [cur EXCEPT ![s] =
                            [NoCursor EXCEPT !.n = call[CONN].k,
                                             !.id = call[CONN].id,
                                             !.open = TRUE,
                                             !.rt = StreamRuntime(RT)]]
               /\ rc' = ArcClone(rc)
       ELSE UNCHANGED <<sst, cur, rc>>
    /\ UNCHANGED <<conn, ses, nIssued>>

\* LdapConn::last_id: self.ldap.last_id(), no runtime involved.
ConnLastId ==
    /\ conn = "live"
    /\ call[CONN].op = "idle"
    /\ ret' = [ret EXCEPT ![CONN] =
                 [NoRet EXCEPT !.op = "last_id", !.out = LastIdOutcome(rc),
                               !.val = ses.lastId, !.connLive = TRUE,
                               !.others = Others(CONN),
                               !.closed = ses.closed]]
    /\ UNCHANGED <<conn, rc, sst, cur, call, driving, ses, nIssued, scenA>>

\* The LdapConn goes out of scope: its Arc<Runtime> field is dropped.
ConnDrop ==
    /\ conn = "live"
    /\ call[CONN].op = "idle"
    /\ conn' = "dropped"
    /\ rc' = ArcDrop(rc)
    /\ UNCHANGED <<sst, cur, call, driving, ses, ret, nIssued, scenA>>

\* EntryStream::next: the same get_mut / block_on pair on the stream's Arc.
StreamNext(s) ==
    /\ sst[s] = "live"
    /\ call[s].op = "idle"
    /\ nIssued < MaxCalls
    /\ nIssued' = nIssued + 1
    /\ cur' = [cur EXCEPT ![s].calls = @ + 1]
    /\ IF ArcGetMut(rc)
       THEN /\ driving' = driving \cup {s}
            /\ call' = [call EXCEPT ![s] =
                          [Idle EXCEPT !.op = "next", !.k = cur[s].calls + 1,
                                       !.connLive = (conn = "live"),
                                       !.others = Others(s),
                                       !.closed = ses.closed]]
            /\ ses' = [ses EXCEPT !.inflight = @ + 1]
            /\ UNCHANGED ret
       ELSE /\ ret' = [ret EXCEPT ![s] =
                         [NoRet EXCEPT !.op = "next", !.out = "Panic",
                                       !.k = cur[s].calls + 1,
                                       !.connLive = (conn = "live"),
                                       !.sawEnd = cur[s].done,
                                       !.others = Others(s),
                                       !.closed = ses.closed]]
            /\ UNCHANGED <<driving, call, ses>>
    /\ UNCHANGED <<conn, rc, sst, scenA>>

\* The cursor's next-entry step finishes inside block_on.
StreamNextCompletes(s) ==
    /\ call[s].op = "next"
    /\ ~call[s].done
    /\ LET r == CursorStep(cur[s], call[s].k) IN
        /\ call' = [call EXCEPT ![s].done = TRUE, ![s].out = r.out,
                                ![s].val = r.val]
        /\ cur' = [cur EXCEPT ![s] = r.c]
    /\ ses' = [ses EXCEPT !.inflight = @ - 1]
    /\ UNCHANGED <<conn, rc, sst, driving, ret, nIssued, scenA>>

StreamNextReturn(s) ==
    /\ call[s].op = "next"
    /\ BlockOn(call[s].done)
    /\ driving' = driving \ {s}
    /\ call' = [call EXCEPT ![s] = Idle]
    /\ ret' = [ret EXCEPT ![s] =
                 [NoRet EXCEPT !.op = "next",
                               !.out = MethodResult(call[s].out),
                               !.val = call[s].val, !.k = call[s].k,
                               !.connLive = call[s].connLive, !.acq = TRUE,
                               !.sawEnd = cur[s].done,
                               !.others = call[s].others,
                               !.closed = call[s].closed]]
    /\ UNCHANGED <<conn, rc, sst, cur, ses, nIssued, scenA>>

\* SearchStream::finish gives the final LdapResult of the search when the
\* cursor has been read to its end, and a result saying that it was not
\* otherwise.
FinishValue(c) == IF c.done THEN "final" ELSE "unfinished"

\* EntryStream::result(self): self.stream.finish(); the handle is consumed,
\* so its Arc is dropped.  The return type is LdapResult, not Result.
StreamResult(s) ==
    /\ sst[s] = "live"
    /\ call[s].op = "idle"
    /\ sst' = [sst EXCEPT ![s] = "finished"]
    /\ rc' = ArcDrop(rc)
    /\ ret' = [ret EXCEPT ![s] =
                 [NoRet EXCEPT !.op = "result",
                               !.out = ResultOutcome(rc, FinishValue(cur[s])),
                               !.k = cur[s].calls,
                               !.connLive = (conn = "live"),
                               !.sawEnd = cur[s].done,
                               !.others = Others(s),
                               !.closed = ses.closed]]
    /\ cur' = [cur EXCEPT ![s] = CursorClose(cur[s])]
    /\ UNCHANGED <<conn, call, driving, ses, nIssued, scenA>>

\* EntryStream::last_id: self.stream.last_id().
StreamLastId(s) ==
    /\ sst[s] = "live"
    /\ call[s].op = "idle"
    /\ ret' = [ret EXCEPT ![s] =
                 [NoRet EXCEPT !.op = "last_id", !.out = LastIdOutcome(rc),
                               !.val = cur[s].id,
                               !.connLive = (conn = "live"),
                               !.sawEnd = cur[s].done,
                               !.others = Others(s),
                               !.closed = ses.closed]]
    /\ UNCHANGED <<conn, rc, sst, cur, call, driving, ses, nIssued, scenA>>

\* The EntryStream goes out of scope without result().
StreamDrop(s) ==
    /\ sst[s] = "live"
    /\ call[s].op = "idle"
    /\ sst' = [sst EXCEPT ![s] = "dropped"]
    /\ rc' = ArcDrop(rc)
    /\ cur' = [cur EXCEPT ![s] = CursorClose(cur[s])]
    /\ UNCHANGED <<conn, call, driving, ses, ret, nIssued, scenA>>

\* Where an EntryStream is in its protocol: 0 not created, 1 started (no
\* entry read), 2 yielding, 3 finished by result() or abandoned by a drop.
HandlePhase(s) ==
    IF sst[s] = "unused" THEN 0
    ELSE IF sst[s] = "live"
         THEN (IF cur[s].pos = 0 /\ ~cur[s].done THEN 1 ELSE 2)
         ELSE 3

EntryStreamNext == \E s \in SIds : StreamNext(s)
EntryStreamNextCompletes == \E s \in SIds : StreamNextCompletes(s)
EntryStreamNextReturn == \E s \in SIds : StreamNextReturn(s)
EntryStreamResult == \E s \in SIds : StreamResult(s)
EntryStreamLastId == \E s \in SIds : StreamLastId(s)
EntryStreamDrop == \E s \in SIds : StreamDrop(s)

Next ==
    \/ WithSettings
    \/ SimpleBind
    \/ SaslExternalBind
    \/ SaslSpnegoBind
    \/ Search
    \/ StreamingSearch
    \/ Add
    \/ Compare
    \/ Delete
    \/ Modify
    \/ ModifyDn
    \/ Unbind
    \/ Extended
    \/ Abandon
    \/ ConnOpCompletes
    \/ ConnReturn
    \/ ConnLastId
    \/ ConnDrop
    \/ EntryStreamNext
    \/ EntryStreamNextCompletes
    \/ EntryStreamNextReturn
    \/ EntryStreamResult
    \/ EntryStreamLastId
    \/ EntryStreamDrop

Spec == Init /\ [][Next]_vars


(***************************************************************************)
(* Claims                                                                   *)
(***************************************************************************)

\* C1: while the LdapConn that created it is alive, the k-th next() on an
\* EntryStream returns the k-th entry of the cursor, and None after the last.
C1_NextYieldsCursorEntries ==
    \A s \in SIds :
        (ret[s].op = "next" /\ ret[s].connLive) =>
            /\ ret[s].out = "Ok"
            /\ ret[s].val = (IF ret[s].k <= cur[s].n THEN ret[s].k ELSE 0)

\* C2: at most one holder of the shared runtime is inside block_on at any
\* instant, whatever the interleaving of LdapConn and EntryStream calls.
C2_AtMostOneDriving == Cardinality(driving) <= 1

C2_StreamDrivesAlone ==
    \E s \in SIds :
        /\ driving = {s}
        /\ ret[CONN].op = "streaming_search"
        /\ ret[CONN].acq

\* C3 as stated: a blocking call made while another holder of the runtime is
\* live returns ExclusiveAccessError to its caller as an error value.
C3_DeniedCallReturnsErrorValue ==
    \A h \in Holders :
        (ret[h].op \in BlockingOps /\ ret[h].others > 0) =>
            /\ ret[h].out = "ExclusiveAccessError"
            /\ ~ret[h].acq

\* C3 as amended: a blocking call made while another holder of the runtime is
\* live panics at the expect and never enters block_on; only calls made with
\* no other live holder run work on the driver.
C3_DeniedCallPanics ==
    /\ \A h \in Holders :
        (ret[h].op \in BlockingOps /\ ret[h].others > 0) =>
            /\ ret[h].out = "Panic"
            /\ ~ret[h].acq
    /\ \A h \in Holders : call[h].op # "idle" => call[h].others = 0
    /\ \A h \in driving : call[h].op # "idle"

C3_FacadeAndHandleDenied ==
    \E s \in LiveStreams :
        /\ conn = "live"
        /\ ret[s].op = "next"
        /\ ret[s].out = "Panic"
        /\ ret[CONN].op = "search"
        /\ ret[CONN].out = "Panic"

C5_EarlyResultIsSequenceError ==
    \A s \in SIds :
        (ret[s].op = "result" /\ ~ret[s].sawEnd) =>
            ret[s].out = "ProtocolSequenceError"

\* C5 as amended: result() always returns an LdapResult, the final one when
\* None had been seen and the cursor's unfinished one otherwise; it consumes
\* the handle, and once no handle is live the LdapConn is the only holder
\* again, so its next call obtains the driver.
C5_ResultAlwaysReturns ==
    \A s \in SIds :
        sst[s] = "finished" =>
            /\ ret[s].op = "result"
            /\ ret[s].out = (IF ret[s].sawEnd THEN "final" ELSE "unfinished")
            /\ call[s].op = "idle"
            /\ s \notin driving
            /\ (conn = "live" /\ LiveStreams = {}) => rc = 1

C5_FacadeUsedAfterEarlyResult ==
    \E s \in SIds :
        /\ sst[s] = "finished"
        /\ ~ret[s].sawEnd
        /\ ret[CONN].op = "search"
        /\ ret[CONN].acq
        /\ ret[CONN].out = "Ok"

\* C6: abandon(last_id()) called right after streaming_search, with the
\* handle live and no next() issued, completes, and every later next() on
\* the handle reports the abandonment.
C6_AbandonThenNextReportsAbandoned ==
    /\ (/\ ret[CONN].op = "abandon"
        /\ \E s \in LiveStreams :
              cur[s].id = ret[CONN].val /\ cur[s].calls = 0)
          => ret[CONN].out \in SessionOutcomes
    /\ \A s \in SIds :
          (cur[s].abandoned /\ ret[s].op = "next") =>
              ret[s].out = "Abandoned"

\* C7: with no EntryStream live, the LdapConn is the only holder of the
\* runtime, so each of its blocking calls obtains the driver and returns what
\* the session reported; on a fresh connection simple_bind, search and unbind
\* that the session answers with success each reach the session, in order.
C7_NoLiveStreamCallsSucceed ==
    /\ (conn = "live" /\ LiveStreams = {}) => rc = 1
    /\ (ret[CONN].op \in ConnOps /\ ret[CONN].others = 0) =>
          /\ ret[CONN].acq
          /\ ret[CONN].out # "Panic"
          /\ ~call[CONN].done => ret[CONN].out = ses.lastOut
    /\ (scenA \in 1..3 /\ call[CONN].op = "idle") =>
          /\ ses.lastId = scenA
          /\ ~ses.bindFailed
          /\ ses.closed <=> scenA = 3

C7_ScenarioA ==
    /\ scenA = 3
    /\ ret[CONN].op = "unbind"
    /\ ret[CONN].out = "Ok"
    /\ ret[CONN].acq
    /\ ses.lastId = 3

\* C8: at most one operation is in flight in the session; an operation of
\* the LdapConn carries the newest request id, it is in flight exactly until
\* it completes, and when no call is in progress nothing is in flight.
C8_OneInFlightInOrder ==
    /\ ses.inflight <= 1
    /\ (\A h \in Holders : call[h].op = "idle") => ses.inflight = 0
    /\ (call[CONN].op \in ConnOps /\ ~call[CONN].closed) =>
          /\ call[CONN].id = ses.lastId
          /\ ses.inflight = (IF call[CONN].done THEN 0 ELSE 1)

C8_SecondOpInFlight ==
    /\ call[CONN].op = "delete"
    /\ ~call[CONN].done
    /\ call[CONN].id = 2
    /\ ret[CONN].op = "add"
    /\ ret[CONN].acq

\* C9: after a bind has failed, no operation other than another bind is
\* forwarded to the session.
C9_NoCallForwardedAfterFailedBind ==
    ses.bindFailed => call[CONN].op \in ({"idle"} \cup BindOps)

\* C10: last_id() of the LdapConn and of an EntryStream always returns,
\* also while other holders are live, without touching the runtime or any
\* other state; the LdapConn's gives the id of the newest operation, the
\* EntryStream's the id of its search.
C10_LastIdIsPure ==
    /\ [](\A h \in Holders :
            ret[h].op = "last_id" =>
                /\ ret[h].out = "Ok"
                /\ ~ret[h].acq
                /\ (h = CONN /\ call[CONN].op = "idle") =>
                      ret[h].val = ses.lastId
                /\ h \in SIds => ret[h].val = cur[h].id)
    /\ [][(\E h \in Holders : ret'[h] # ret[h] /\ ret'[h].op = "last_id")
            => UNCHANGED <<conn, rc, sst, cur, call, driving, ses, nIssued>>]_vars

C10_LastIdWhileShared ==
    \E s \in LiveStreams :
        /\ conn = "live"
        /\ rc = 2
        /\ ret[CONN].op = "last_id"
        /\ ret[s].op = "last_id"
        /\ ret[CONN].val = cur[s].id
        /\ ret[s].val = cur[s].id
        /\ cur[s].id >= 1

\* C11 as stated: every blocking LdapConn call hands its operation to the
\* session and returns what the session reported.
C11_EveryCallReturnsSessionResult ==
    ret[CONN].op \in ConnOps =>
        /\ ret[CONN].acq
        /\ ret[CONN].out \in SessionOutcomes \cup {"SessionClosed"}

\* C11 as amended: a blocking LdapConn call that obtains the driver starts
\* exactly one operation of the session, starts none while it waits or when
\* it returns, and returns the outcome the session reported, unchanged; a
\* call that is denied the driver starts none and panics.
C11_ForwardedOnceUnchanged ==
    /\ [](ret[CONN].op \in ConnOps =>
            IF ret[CONN].acq
            THEN ret[CONN].out \in SessionOutcomes \cup {"SessionClosed"}
            ELSE ret[CONN].out = "Panic" /\ ret[CONN].others > 0)
    /\ [][/\ (call[CONN].op = "idle" /\ call'[CONN].op \in ConnOps) =>
                IF ses.closed
                THEN ses' = ses
                ELSE /\ ses'.lastId = ses.lastId + 1
                     /\ ses'.inflight = ses.inflight + 1
          /\ (call[CONN].op \in ConnOps /\ call'[CONN].op = call[CONN].op) =>
               ses'.lastId = ses.lastId
          /\ (call[CONN].op \in ConnOps /\ call'[CONN].op = "idle") =>
               /\ ses' = ses
               /\ ret'[CONN].op = call[CONN].op
               /\ ret'[CONN].out = call[CONN].out
               /\ ret'[CONN].out = ses.lastOut
          /\ (/\ call[CONN].op = "idle"
              /\ ret'[CONN] # ret[CONN]
              /\ ret'[CONN].out = "Panic") =>
               ses' = ses]_vars

C11_FailureReturnedAsIs ==
    /\ ret[CONN].op = "compare"
    /\ ret[CONN].out = "Err"
    /\ ret[CONN].acq
    /\ ses.lastOut = "Err"
    /\ ses.lastId = 1

\* C12: with_settings gives an LdapConn exactly when building the runtime
\* and establishing the connection both succeeded; after a failure there is
\* no LdapConn, no holder of a runtime, no session and no call.
C12_FailedConnectLeavesNothing ==
    /\ conn = "failed" =>
          /\ rc = 0
          /\ ret[CONN].op = "with_settings"
          /\ ret[CONN].out \in {"Err", "RuntimeErr"}
          /\ ses = NoSession
          /\ LiveStreams = {}
          /\ driving = {}
          /\ \A h \in Holders : call[h].op = "idle"
          /\ nIssued = 0
    /\ conn = "live" => rc >= 1
    /\ (ret[CONN].op = "with_settings" /\ ret[CONN].out = "Ok") =>
          conn \in {"live", "dropped"}
    /\ (ret[CONN].op = "with_settings" /\ ret[CONN].out # "Ok") =>
          conn = "failed"

C12_ConnectFailed ==
    /\ conn = "failed"
    /\ ret[CONN].out = "Err"
    /\ rc = 0

\* C13: no caller ever waits for the driver: a call in progress is inside
\* block_on and no other holder has a call in progress, and a call that is
\* denied the driver is over in the step that made it.
C13_NoCallerWaits ==
    /\ [](\A h \in Holders :
            call[h].op # "idle" =>
                /\ h \in driving
                /\ \A g \in Holders \ {h} : call[g].op = "idle")
    /\ [][\A h \in Holders :
            (ret'[h] # ret[h] /\ ret'[h].out = "Panic") =>
                (call[h].op = "idle" /\ call'[h].op = "idle")]_vars

C13_DeniedCallerIsFree ==
    \E s \in LiveStreams :
        /\ conn = "live"
        /\ ret[CONN].op = "streaming_search"
        /\ ret[CONN].out = "Panic"
        /\ call[CONN].op = "idle"
        /\ call[s].op = "idle"

C15_OneSharedRuntime ==
    /\ RuntimeAlive(rc) <=> (conn = "live" \/ LiveStreams # {})
    /\ \A s \in LiveStreams : cur[s].rt = RT
    /\ conn \in {"none", "failed"} => rc = 0

C15_HandleOutlivesConn ==
    \E s \in LiveStreams :
        /\ conn = "dropped"
        /\ RuntimeAlive(rc)
        /\ cur[s].rt = RT
        /\ ret[s].op = "next"
        /\ ret[s].acq

C17_HolderCount ==
    /\ rc = (IF conn = "live" THEN 1 ELSE 0) + Cardinality(LiveStreams)
    /\ \A h \in Holders :
          ret[h].op \in BlockingOps => (ret[h].acq <=> ret[h].others = 0)
    /\ \A h \in Holders : call[h].op # "idle" => call[h].others = 0

C17_TwoHoldersDenied ==
    \E s \in LiveStreams :
        /\ conn = "live"
        /\ rc = 2
        /\ ret[CONN].op = "add"
        /\ ~ret[CONN].acq
        /\ ret[CONN].others = 1

\* C18: while the LdapConn is alive at most one EntryStream made from it is
\* live, and a streaming_search that returned a handle was called with none
\* live.
C18_OneHandleAtATime ==
    /\ conn = "live" => Cardinality(LiveStreams) <= 1
    /\ (ret[CONN].op = "streaming_search" /\ ret[CONN].out = "Ok") =>
          (ret[CONN].acq /\ ret[CONN].others = 0)

C18_SecondHandleAfterFirst ==
    /\ conn = "live"
    /\ sst[1] \in {"finished", "dropped"}
    /\ sst[2] = "live"

\* C19: a streaming_search whose start failed returns that error, creates
\* no EntryStream and leaves the strong count at one, so the LdapConn is
\* still the only holder for its next call.
C19_FailedStartCreatesNoHandle ==
    /\ []((/\ conn = "live"
           /\ ret[CONN].op = "streaming_search"
           /\ ret[CONN].acq
           /\ ret[CONN].out # "Ok") =>
             (rc = 1 /\ LiveStreams = {}))
    /\ [][(/\ call[CONN].op = "streaming_search"
           /\ call[CONN].out # "Ok"
           /\ call'[CONN].op = "idle") =>
             /\ ret'[CONN].out = call[CONN].out
             /\ sst' = sst
             /\ cur' = cur
             /\ rc' = rc]_vars

C19_NextCallAfterFailedStart ==
    /\ ret[CONN].op = "streaming_search"
    /\ ret[CONN].out = "Err"
    /\ call[CONN].op = "search"
    /\ CONN \in driving

====
